---- MODULE Spec2Model ----
(***************************************************************************)
(* budget_forecasting.py: a ledger CSV is loaded, aggregated by calendar   *)
(* month and category, forecast per category (SARIMAX(1,1,1) when          *)
(* statsmodels is importable and the series has at least 6 points, else    *)
(* the last value repeated) and written to an Excel workbook.              *)
(*                                                                         *)
(* Timestamps are <<year, month, day>>.  A CSV cell is its text.  A value  *)
(* of the Amount column is [num, n, s]: an integer n of a numeric column   *)
(* (num), or the text s of an object column.                               *)
(***************************************************************************)
EXTENDS Integers, Sequences, FiniteSets, TLC

\* ---------------------------------------------------------------- bounds
\* Rows of a ledger file (raw cells, malformed ones included).
MaxRows == 2
\* Records of a well-formed record collection handed to the functions.
MaxRecords == 3
\* Largest periods argument of a direct call.
MaxPeriods == 3

\* ------------------------------------------------------------ input sets
\* Date cells: two days of Nov 2023, Dec 2023 and Apr 2024 (series of 1, 2, 5
\* and 6 months, across a year end), and one text that is no date.
GoodDateTexts == {"2023-11-15", "2023-11-30", "2023-12-01", "2024-04-20"}
\* For the record collections handed to the functions, Jan 2024 as well
\* (series of every length from 1 to 6).
RecordDateTexts == GoodDateTexts \cup {"2024-01-10"}
BadDateText == "soon"
Categories == {"Rent", "Sales"}
GoodAmountTexts == {"-1000", "500"}
BadAmountText == "abc"
RequiredColumns == {"Date", "Category", "Amount"}
\* The cell of a column the file does not have.
NoCell == ""

NaT == <<0, 0, 0>>

\* ------------------------------------------------------------ cell values
NumVal(n) == [num |-> TRUE, n |-> n, s |-> ""]
StrVal(s) == [num |-> FALSE, n |-> 0, s |-> s]

\* pandas' date parser on one cell: a timestamp, or NaT when it fails.
ParseDate(t) ==
    CASE t = "2023-11-15" -> <<2023, 11, 15>>
      [] t = "2023-11-30" -> <<2023, 11, 30>>
      [] t = "2023-12-01" -> <<2023, 12, 1>>
      [] t = "2024-01-10" -> <<2024, 1, 10>>
      [] t = "2024-04-20" -> <<2024, 4, 20>>
      [] OTHER -> NaT

\* The C parser's numeric conversion of one cell: ok is FALSE when the text is
\* no number.
ParseAmount(t) ==
    CASE t = "-1000" -> [ok |-> TRUE, n |-> -1000]
      [] t = "500" -> [ok |-> TRUE, n |-> 500]
      [] OTHER -> [ok |-> FALSE, n |-> 0]

\* ------------------------------------------------------------- timestamps
TsLess(a, b) ==
    \/ a[1] < b[1]
    \/ a[1] = b[1] /\ a[2] < b[2]
    \/ a[1] = b[1] /\ a[2] = b[2] /\ a[3] < b[3]

TsLeq(a, b) == a = b \/ TsLess(a, b)

\* Series.dt.to_period('M').dt.to_timestamp(): the first day of the month.
MonthKey(ts) == <<ts[1], ts[2], 1>>

\* ts + pd.offsets.MonthBegin(1): the first month start after ts.
MonthBeginAdd(ts) ==
    IF ts[2] = 12 THEN <<ts[1] + 1, 1, 1>> ELSE <<ts[1], ts[2] + 1, 1>>

\* pd.date_range(start, end, freq='MS') for a month start `start`.
RECURSIVE date_range_to(_, _)
date_range_to(start, end) ==
    IF TsLess(end, start) THEN <<>>
    ELSE <<start>> \o date_range_to(MonthBeginAdd(start), end)

\* pd.date_range(start, periods=n, freq='MS') for a month start `start`.
RECURSIVE date_range_n(_, _)
date_range_n(start, n) ==
    IF n <= 0 THEN <<>>
    ELSE <<start>> \o date_range_n(MonthBeginAdd(start), n - 1)

\* Alphabetical order of the category labels (groupby sorts its keys).
CatRank(c) == IF c = "Rent" THEN 0 ELSE 1

\* --------------------------------------------------------------- sequences
Range(s) == {s[i] : i \in 1..Len(s)}

SeqsUpTo(S, n) == UNION {[1..k -> S] : k \in 0..n}

\* ----------------------------------------------------------------- results
\* What a call gives back: a value, or the exception it raised.
Ok(v) == [raised |-> FALSE, err |-> "", value |-> v]
Raise(e) == [raised |-> TRUE, err |-> e, value |-> <<>>]

\* --------------------------------------------------------------- constants
\* forecast_series fits a model only from this many observations on.
MinObservations == 6
\* The default of the periods parameter.
DefaultPeriods == 6

\* -------------------------------------------------------------- load_ledger
\* pd.read_csv(path, parse_dates=['Date']).  A parse_dates column that is not
\* in the file raises.  A column whose every cell parses is converted; one
\* cell that does not parse leaves the whole column as the texts read.
\* emptyDates is the dtype pandas gives the Date column of a file without
\* rows ("datetime64" or "object").
read_csv(file, emptyDates) ==
    IF "Date" \notin file.header
    THEN Raise("ValueError")
    ELSE
      LET n == Len(file.rows)
          datesParse == IF n = 0 THEN emptyDates = "datetime64"
                        ELSE \A i \in 1..n : ParseDate(file.rows[i].Date) # NaT
          amountsParse == \A i \in 1..n : ParseAmount(file.rows[i].Amount).ok
          amount(i) == IF amountsParse
                       THEN NumVal(ParseAmount(file.rows[i].Amount).n)
                       ELSE StrVal(file.rows[i].Amount)
      IN Ok([cols |-> file.header,
             datetime |-> datesParse,
             rows |-> [i \in 1..n |->
                        [Date |-> IF datesParse THEN ParseDate(file.rows[i].Date)
                                  ELSE NaT,
                         Month |-> NaT,
                         Category |-> file.rows[i].Category,
                         Amount |-> amount(i)]]])

\* load_ledger: read_csv, then the Month column through the .dt accessor,
\* which only a datetime column has.
load_ledger(file, emptyDates) ==
    LET r == read_csv(file, emptyDates)
    IN IF r.raised THEN r
       ELSE IF ~r.value.datetime THEN Raise("AttributeError")
       ELSE Ok([cols |-> r.value.cols \cup {"Month"},
                datetime |-> TRUE,
                rows |-> [i \in 1..Len(r.value.rows) |->
                           [r.value.rows[i] EXCEPT
                              !.Month = MonthKey(r.value.rows[i].Date)]]])

\* -------------------------------------------------------- aggregate_by_month
\* Series.sum over the values of one group, in row order: integers add,
\* the texts of an object column concatenate.
Add(a, b) ==
    IF a.num /\ b.num THEN NumVal(a.n + b.n) ELSE StrVal(a.s \o b.s)

\* Variant: a later record of a group overwrites the earlier ones.
GroupSum_last(vals) == vals[Len(vals)]

RECURSIVE GroupSum(_)
GroupSum(vals) ==
    IF Len(vals) = 1 THEN vals[1] ELSE Add(vals[1], GroupSum(Tail(vals)))

\* groupby sorts the group keys: by Month, then by Category.
KeyLess(a, b) ==
    \/ TsLess(a[1], b[1])
    \/ a[1] = b[1] /\ CatRank(a[2]) < CatRank(b[2])

RECURSIVE SortKeys(_)
SortKeys(S) ==
    IF S = {} THEN <<>>
    ELSE LET m == CHOOSE k \in S : \A o \in S \ {k} : KeyLess(k, o)
         IN <<m>> \o SortKeys(S \ {m})

AmountsOf(rows, key) ==
    LET g == SelectSeq(rows, LAMBDA r : <<r.Month, r.Category>> = key)
    IN [i \in 1..Len(g) |-> g[i].Amount]

\* df.groupby(['Month', 'Category'])['Amount'].sum().reset_index()
aggregate_by_month(df) ==
    IF ~({"Month", "Category", "Amount"} \subseteq df.cols)
    THEN Raise("KeyError")
    ELSE
      LET keys == SortKeys({<<r.Month, r.Category>> : r \in Range(df.rows)})
      IN Ok([i \in 1..Len(keys) |->
               [Month |-> keys[i][1],
                Category |-> keys[i][2],
                Amount |-> GroupSum(AmountsOf(df.rows, keys[i]))]])

\* ----------------------------------------------------------- forecast_series
\* The k-th value of results.forecast(periods) of the model fitted to series:
\* statsmodels computes it from the series and k alone, and the model keeps
\* it as that term.
FitValue(series, k) == [sarimax |-> series, step |-> k]

\* SARIMAX(...).fit raises on an endog that is not numeric, and on the numeric
\* series the engine at hand fails on (engine.raisesOn).
FitRaises(series, engine) ==
    \/ \E i \in 1..Len(series) : ~series[i].num
    \/ series \in engine.raisesOn

\* Variant: the fallback repeats the first value of the series.
forecast_series_first(series, periods, engine) ==
    IF ~engine.available \/ Len(series) < MinObservations
    THEN IF Len(series) = 0 THEN Raise("IndexError")
         ELSE Ok([path |-> "fallback",
                  values |-> [k \in 1..periods |-> series[1]]])
    ELSE IF FitRaises(series, engine) THEN Raise("FitError")
         ELSE Ok([path |-> "statistical",
                  values |-> [k \in 1..periods |-> FitValue(series, k)]])

\* Variant: the threshold off by one, a series of exactly 6 falls back.
forecast_series_offbyone(series, periods, engine) ==
    IF ~engine.available \/ Len(series) <= MinObservations
    THEN IF Len(series) = 0 THEN Raise("IndexError")
         ELSE Ok([path |-> "fallback",
                  values |-> [k \in 1..periods |-> series[Len(series)]]])
    ELSE IF FitRaises(series, engine) THEN Raise("FitError")
         ELSE Ok([path |-> "statistical",
                  values |-> [k \in 1..periods |-> FitValue(series, k)]])

\* Variant: a fit that raises is caught and the fallback returned instead.
forecast_series_swallow(series, periods, engine) ==
    IF Len(series) = 0 THEN Raise("IndexError")
    ELSE IF ~engine.available \/ Len(series) < MinObservations
              \/ FitRaises(series, engine)
         THEN Ok([path |-> "fallback",
                  values |-> [k \in 1..periods |-> series[Len(series)]]])
         ELSE Ok([path |-> "statistical",
                  values |-> [k \in 1..periods |-> FitValue(series, k)]])

\* forecast_series(series, periods): value is [path, values].
forecast_series(series, periods, engine) ==
    IF ~engine.available \/ Len(series) < MinObservations
    THEN IF Len(series) = 0 THEN Raise("IndexError")
         ELSE LET last == series[Len(series)]
              IN Ok([path |-> "fallback",
                     values |-> [k \in 1..periods |-> last]])
    ELSE IF FitRaises(series, engine) THEN Raise("FitError")
         ELSE Ok([path |-> "statistical",
                  values |-> [k \in 1..periods |-> FitValue(series, k)]])

\* ------------------------------------------------------------ build_forecast
\* The categories in the order groupby('Category') yields them.
RECURSIVE SortCats(_)
SortCats(S) ==
    IF S = {} THEN <<>>
    ELSE LET m == CHOOSE c \in S : \A o \in S \ {c} : CatRank(c) < CatRank(o)
         IN <<m>> \o SortCats(S \ {m})

\* Variant: the loop body reads the whole table, not the category's group.
GroupOf_all(monthly, category) == monthly

GroupOf(monthly, category) ==
    SelectSeq(monthly, LAMBDA r : r.Category = category)

MinMonth(group) ==
    CHOOSE m \in {r.Month : r \in Range(group)} :
        \A r \in Range(group) : TsLeq(m, r.Month)

MaxMonth(group) ==
    CHOOSE m \in {r.Month : r \in Range(group)} :
        \A r \in Range(group) : TsLeq(r.Month, m)

\* Variant: without asfreq, the series holds the group's own rows only.
SeriesOf_rows_only(group) ==
    [i \in 1..Len(group) |-> [Month |-> group[i].Month,
                              Amount |-> group[i].Amount]]

\* group.set_index('Month')['Amount'].asfreq('MS').fillna(0): the index is
\* date_range(index.min(), index.max(), freq='MS'), a month of the group
\* keeps its Amount and a month without a row gets NaN, which fillna makes 0.
SeriesOf(group) ==
    LET idx == date_range_to(MinMonth(group), MaxMonth(group))
        at(m) == IF \E r \in Range(group) : r.Month = m
                 THEN (CHOOSE r \in Range(group) : r.Month = m).Amount
                 ELSE NumVal(0)
    IN [i \in 1..Len(idx) |-> [Month |-> idx[i], Amount |-> at(idx[i])]]

Values(ts) == [i \in 1..Len(ts) |-> ts[i].Amount]

\* Variant: the forecast index starts at the last actual month itself.
ForecastCategory_from_last(monthly, category, periods, engine) ==
    LET ts == SeriesOf(SelectSeq(monthly, LAMBDA r : r.Category = category))
        fc == forecast_series(Values(ts), periods, engine)
    IN IF fc.raised THEN fc
       ELSE
         LET fc_index == date_range_n(ts[Len(ts)].Month, periods)
         IN Ok([rows |-> [k \in 1..Len(fc_index) |->
                            [Month |-> fc_index[k],
                             Category |-> category,
                             Forecast |-> fc.value.values[k]]],
                ts |-> ts,
                path |-> fc.value.path])

\* One pass of the loop body: value is [rows, ts, path].
ForecastCategory(monthly, category, periods, engine) ==
    LET ts == SeriesOf(GroupOf(monthly, category))
        fc == forecast_series(Values(ts), periods, engine)
    IN IF fc.raised THEN fc
       ELSE
         LET fc_index == date_range_n(MonthBeginAdd(ts[Len(ts)].Month), periods)
         IN IF Len(fc_index) # Len(fc.value.values) THEN Raise("ValueError")
            ELSE Ok([rows |-> [k \in 1..Len(fc_index) |->
                                 [Month |-> fc_index[k],
                                  Category |-> category,
                                  Forecast |-> fc.value.values[k]]],
                     ts |-> ts,
                     path |-> fc.value.path])

\* The loop over the categories from position i on, with the frames
\* collected so far (acc) and what each pass saw (seen).
RECURSIVE ForecastLoop(_, _, _, _, _, _, _)
ForecastLoop(monthly, cats, i, periods, engine, acc, seen) ==
    IF i > Len(cats)
    THEN IF Len(cats) = 0 THEN Raise("ValueError")
         ELSE Ok([rows |-> acc, seen |-> seen])
    ELSE LET one == ForecastCategory(monthly, cats[i], periods, engine)
         IN IF one.raised THEN one
            ELSE ForecastLoop(monthly, cats, i + 1, periods, engine,
                              acc \o one.value.rows,
                              Append(seen, [Category |-> cats[i],
                                            ts |-> one.value.ts,
                                            path |-> one.value.path]))

\* Variant: a table without categories gives an empty forecast.
build_forecast_empty_ok(monthly, periods, engine) ==
    IF Len(monthly) = 0 THEN Ok([rows |-> <<>>, seen |-> <<>>])
    ELSE ForecastLoop(monthly, SortCats({r.Category : r \in Range(monthly)}),
                      1, periods, engine, <<>>, <<>>)

\* build_forecast(df, periods): value is [rows, seen]; pd.concat of no frame
\* raises ValueError.
build_forecast(monthly, periods, engine) ==
    ForecastLoop(monthly, SortCats({r.Category : r \in Range(monthly)}), 1,
                 periods, engine, <<>>, <<>>)

\* ------------------------------------------------------------ save_to_excel
NoWorkbook == [written |-> FALSE, Actuals |-> <<>>, Forecast |-> <<>>]

\* The workbook save_to_excel leaves behind: the two sheets.
save_to_excel(actuals, forecast) ==
    [written |-> TRUE, Actuals |-> actuals, Forecast |-> forecast]

\* ---------------------------------------------------------------- parse_args
InputPath == "ledger.csv"
OutputPath == "forecast.xlsx"
BaseArgv == <<"--input", InputPath, "--output", OutputPath>>
HorizonTexts == {"3"}
Argvs == {BaseArgv} \cup {BaseArgv \o <<"--periods", h>> : h \in HorizonTexts}

\* The options main adds to the parser; each takes one value.
KnownOptions == {"--input", "--output"}

\* parser.parse_args(): every token must belong to a known option, and both
\* options are required; otherwise argparse exits with status 2.
RECURSIVE ScanArgs(_, _, _)
ScanArgs(argv, i, got) ==
    IF i > Len(argv)
    THEN IF KnownOptions \subseteq DOMAIN got THEN Ok(got)
         ELSE Raise("SystemExit")
    ELSE IF argv[i] \in KnownOptions /\ i + 1 <= Len(argv)
         THEN ScanArgs(argv, i + 2,
                       [o \in DOMAIN got \cup {argv[i]} |->
                          IF o = argv[i] THEN argv[i + 1] ELSE got[o]])
         ELSE Raise("SystemExit")

\* Variant: tokens the parser does not know are skipped.
RECURSIVE ScanKnownArgs(_, _, _)
ScanKnownArgs(argv, i, got) ==
    IF i > Len(argv)
    THEN IF KnownOptions \subseteq DOMAIN got THEN Ok(got)
         ELSE Raise("SystemExit")
    ELSE IF argv[i] \in KnownOptions /\ i + 1 <= Len(argv)
         THEN ScanKnownArgs(argv, i + 2,
                            [o \in DOMAIN got \cup {argv[i]} |->
                               IF o = argv[i] THEN argv[i + 1] ELSE got[o]])
         ELSE ScanKnownArgs(argv, i + 1, got)

parse_args_lenient(argv) == ScanKnownArgs(argv, 1, [o \in {} |-> ""])

parse_args(argv) == ScanArgs(argv, 1, [o \in {} |-> ""])

\* -------------------------------------------------------------------- state
VARIABLES
    argv,       \* the command line of the run
    file,       \* the ledger CSV: [header, rows]
    SARIMAX,    \* the engine: [available, raisesOn]
    pc,         \* the statement main (or the caller) is at
    df,         \* load_ledger's frame
    monthly,    \* aggregate_by_month's rows
    periods,    \* the periods argument of the build_forecast call
    forecast,   \* build_forecast's rows
    seen,       \* per category, the series and the path build_forecast took
    fc,         \* a direct forecast_series call: [Category, series, result]
    alone,      \* build_forecast on one category's rows: [Category, result]
    workbook,   \* what save_to_excel wrote
    stdout,     \* what main printed
    err         \* the exception that ended the run: [at, exc]

vars == <<argv, file, SARIMAX, pc, df, monthly, periods, forecast, seen, fc,
          alone, workbook, stdout, err>>

NoErr == [at |-> "", exc |-> ""]
NoFrame == [cols |-> {}, datetime |-> FALSE, rows |-> <<>>]
NoFile == [header |-> {}, rows |-> <<>>]
NoCall == [Category |-> "", series |-> <<>>, result |-> Raise("")]

\* ------------------------------------------------------------------- inputs
\* The cells a column of the file can hold; a column the file lacks has none.
CellsOf(header, column, texts) == IF column \in header THEN texts ELSE {NoCell}

RowsOf(header, dates, amounts) ==
    [Date : CellsOf(header, "Date", dates),
     Category : CellsOf(header, "Category", Categories),
     Amount : CellsOf(header, "Amount", amounts)]

\* Ledger files: every required column, or all but one; cells that parse and
\* cells that do not.
Headers == {RequiredColumns} \cup {RequiredColumns \ {c} : c \in RequiredColumns}

Files ==
    UNION {[header : {h},
            rows : SeqsUpTo(RowsOf(h, GoodDateTexts \cup {BadDateText},
                                   GoodAmountTexts \cup {BadAmountText}),
                            MaxRows)] : h \in Headers}

\* Files whose every required field is there and parses.
WellFormedFiles(n) ==
    [header : {RequiredColumns},
     rows : SeqsUpTo(RowsOf(RequiredColumns, RecordDateTexts, GoodAmountTexts),
                     n)]

\* The actuals a file leads to (no rows when the run fails before them).
MonthlyOfFile(f) ==
    LET d == load_ledger(f, "datetime64")
    IN IF d.raised THEN <<>>
       ELSE LET a == aggregate_by_month(d.value)
            IN IF a.raised THEN <<>> ELSE a.value

CategoriesOf(m) == {r.Category : r \in Range(m)}

\* The numeric series of a table that are long enough to be fitted.
StatSeries(m) ==
    {s \in {Values(SeriesOf(GroupOf(m, c))) : c \in CategoriesOf(m)} :
        /\ Len(s) >= MinObservations
        /\ \A i \in 1..Len(s) : s[i].num}

\* statsmodels absent (SARIMAX = None), or present and failing on some of the
\* series it will be given.
EnginesFor(m) ==
    {[available |-> FALSE, raisesOn |-> {}]}
    \cup {[available |-> TRUE, raisesOn |-> S] : S \in SUBSET StatSeries(m)}

\* ------------------------------------------------------------- a run of main
Init ==
    /\ argv \in Argvs
    /\ file \in Files
    /\ SARIMAX \in EnginesFor(MonthlyOfFile(file))
    /\ pc = "parse_args"
    /\ df = NoFrame
    /\ monthly = <<>>
    /\ periods = DefaultPeriods
    /\ forecast = <<>>
    /\ seen = <<>>
    /\ fc = NoCall
    /\ alone = NoCall
    /\ workbook = NoWorkbook
    /\ stdout = ""
    /\ err = NoErr

\* args = parser.parse_args()
ParseArgs ==
    /\ pc = "parse_args"
    /\ LET r == parse_args(argv)
       IN IF r.raised
          THEN pc' = "raised" /\ err' = [at |-> "parse_args", exc |-> r.err]
          ELSE pc' = "load_ledger" /\ err' = err
    /\ UNCHANGED <<argv, file, SARIMAX, df, monthly, periods, forecast, seen,
                   fc, alone, workbook, stdout>>

\* df = load_ledger(args.input)
LoadLedger ==
    /\ pc = "load_ledger"
    /\ \E emptyDates \in {"datetime64", "object"} :
         LET r == load_ledger(file, emptyDates)
         IN IF r.raised
            THEN /\ pc' = "raised"
                 /\ err' = [at |-> "load_ledger", exc |-> r.err]
                 /\ df' = df
            ELSE /\ pc' = "aggregate_by_month"
                 /\ err' = err
                 /\ df' = r.value
    /\ UNCHANGED <<argv, file, SARIMAX, monthly, periods, forecast, seen, fc,
                   alone, workbook, stdout>>

\* monthly = aggregate_by_month(df)
AggregateByMonth ==
    /\ pc = "aggregate_by_month"
    /\ LET r == aggregate_by_month(df)
       IN IF r.raised
          THEN /\ pc' = "raised"
               /\ err' = [at |-> "aggregate_by_month", exc |-> r.err]
               /\ monthly' = monthly
          ELSE /\ pc' = "build_forecast"
               /\ err' = err
               /\ monthly' = r.value
    /\ UNCHANGED <<argv, file, SARIMAX, df, periods, forecast, seen, fc, alone,
                   workbook, stdout>>

\* forecast = build_forecast(monthly): periods takes its default.
BuildForecast ==
    /\ pc = "build_forecast"
    /\ LET r == build_forecast(monthly, periods, SARIMAX)
       IN IF r.raised
          THEN /\ pc' = "raised"
               /\ err' = [at |-> "build_forecast", exc |-> r.err]
               /\ forecast' = forecast
               /\ seen' = seen
          ELSE /\ pc' = "save_to_excel"
               /\ err' = err
               /\ forecast' = r.value.rows
               /\ seen' = r.value.seen
    /\ UNCHANGED <<argv, file, SARIMAX, df, monthly, periods, fc, alone,
                   workbook, stdout>>

\* save_to_excel(monthly, forecast, args.output): the writer may fail.
SaveToExcel ==
    /\ pc = "save_to_excel"
    /\ \E ok \in BOOLEAN :
         IF ok
         THEN /\ pc' = "print"
              /\ err' = err
              /\ workbook' = save_to_excel(monthly, forecast)
         ELSE /\ pc' = "raised"
              /\ err' = [at |-> "save_to_excel", exc |-> "OSError"]
              /\ workbook' = workbook
    /\ UNCHANGED <<argv, file, SARIMAX, df, monthly, periods, forecast, seen,
                   fc, alone, stdout>>

\* print(f"Forecast saved to {args.output}")
PrintSaved ==
    /\ pc = "print"
    /\ stdout' = "Forecast saved to " \o parse_args(argv).value["--output"]
    /\ pc' = "done"
    /\ UNCHANGED <<argv, file, SARIMAX, df, monthly, periods, forecast, seen,
                   fc, alone, workbook, err>>

Next ==
    \/ ParseArgs
    \/ LoadLedger
    \/ AggregateByMonth
    \/ BuildForecast
    \/ SaveToExcel
    \/ PrintSaved

Spec == Init /\ [][Next]_vars

\* ------------------------------------------------- the functions called alone
\* A caller holding an actuals table (aggregate_by_month's result for some
\* well-formed record collection) calls forecast_series or build_forecast
\* with a periods argument of its own.
Tables == {MonthlyOfFile(f) : f \in WellFormedFiles(MaxRecords)}

InitCall ==
    /\ argv = BaseArgv
    /\ file = NoFile
    /\ monthly \in Tables
    /\ SARIMAX \in EnginesFor(monthly)
    /\ periods \in 1..MaxPeriods
    /\ pc = "call"
    /\ df = NoFrame
    /\ forecast = <<>>
    /\ seen = <<>>
    /\ fc = NoCall
    /\ alone = NoCall
    /\ workbook = NoWorkbook
    /\ stdout = ""
    /\ err = NoErr

\* forecast_series(ts, periods) on the series of one category.
CallForecastSeries ==
    /\ pc = "call"
    /\ \E c \in CategoriesOf(monthly) :
         LET s == Values(SeriesOf(GroupOf(monthly, c)))
         IN fc' = [Category |-> c, series |-> s,
                   result |-> forecast_series(s, periods, SARIMAX)]
    /\ pc' = "forecast_series_returned"
    /\ UNCHANGED <<argv, file, SARIMAX, df, monthly, periods, forecast, seen,
                   alone, workbook, stdout, err>>

\* build_forecast(monthly, periods)
CallBuildForecast ==
    /\ pc = "call"
    /\ LET r == build_forecast(monthly, periods, SARIMAX)
       IN IF r.raised
          THEN /\ err' = [at |-> "build_forecast", exc |-> r.err]
               /\ forecast' = forecast
               /\ seen' = seen
          ELSE /\ err' = err
               /\ forecast' = r.value.rows
               /\ seen' = r.value.seen
    /\ pc' = "build_forecast_returned"
    /\ UNCHANGED <<argv, file, SARIMAX, df, monthly, periods, fc, alone,
                   workbook, stdout>>

\* build_forecast on the rows of one category of the same table, with the
\* same periods.
CallBuildForecastAlone ==
    /\ pc = "build_forecast_returned"
    /\ \E c \in CategoriesOf(monthly) :
         alone' = [Category |-> c, series |-> <<>>,
                   result |-> build_forecast(
                                 SelectSeq(monthly, LAMBDA r : r.Category = c),
                                 periods, SARIMAX)]
    /\ pc' = "alone_returned"
    /\ UNCHANGED <<argv, file, SARIMAX, df, monthly, periods, forecast, seen,
                   fc, workbook, stdout, err>>

NextCall ==
    \/ CallForecastSeries
    \/ CallBuildForecast
    \/ CallBuildForecastAlone

SpecCall == InitCall /\ [][NextCall]_vars

\* =================================================================== claims
\* Measures the properties are stated in, computed apart from the model's
\* own operators.
MonthIndex(ts) == ts[1] * 12 + ts[2] - 1

RECURSIVE SumN(_)
SumN(vals) == IF Len(vals) = 0 THEN 0 ELSE vals[1].n + SumN(Tail(vals))

AmountColumn(rows) == [i \in 1..Len(rows) |-> rows[i].Amount]

Numeric(rows) == \A i \in 1..Len(rows) : rows[i].Amount.num

RowsFor(rows, c) == SelectSeq(rows, LAMBDA r : r.Category = c)

\* main is past the call of the named stage, which returned.
PastLoad ==
    \/ pc \in {"aggregate_by_month", "build_forecast", "save_to_excel",
               "print", "done"}
    \/ pc = "raised" /\ err.at \in {"aggregate_by_month", "build_forecast",
                                    "save_to_excel"}

PastAggregate ==
    \/ pc \in {"build_forecast", "save_to_excel", "print", "done"}
    \/ pc = "raised" /\ err.at \in {"build_forecast", "save_to_excel"}

PastBuild ==
    \/ pc \in {"save_to_excel", "print", "done"}
    \/ pc = "raised" /\ err.at = "save_to_excel"

\* C1: once aggregate_by_month has returned for a frame of numeric amounts,
\* the totals of its rows add up to the amounts of the frame's records, no
\* (Month, Category) pair has two rows, and each row's total is the sum of
\* the records of its month and category.
C1_Conservation ==
    (PastAggregate /\ Numeric(df.rows)) =>
        /\ SumN(AmountColumn(monthly)) = SumN(AmountColumn(df.rows))
        /\ \A i, j \in 1..Len(monthly) :
             (monthly[i].Month = monthly[j].Month
              /\ monthly[i].Category = monthly[j].Category) => i = j
        /\ \A i \in 1..Len(monthly) :
             monthly[i].Amount.n =
                SumN(AmountColumn(SelectSeq(df.rows, LAMBDA r :
                        /\ MonthIndex(r.Date) = MonthIndex(monthly[i].Month)
                        /\ r.Category = monthly[i].Category)))

\* Two records of one month and category, on different days, merged into one
\* row.
C1_Witness ==
    /\ PastAggregate
    /\ Numeric(df.rows)
    /\ Len(df.rows) = 2
    /\ df.rows[1].Date # df.rows[2].Date
    /\ Len(monthly) = 1
    /\ monthly[1].Amount.n = -500

\* C2: the series build_forecast builds for a category holds every calendar
\* month from the category's first to its last actual month once, in
\* increasing order, so (max - min in months) + 1 entries; a month with an
\* actuals row carries the row's total and any other month 0.
C2_SeriesOk(c, ts) ==
    LET g == RowsFor(monthly, c)
        lo == MonthIndex(g[1].Month)
        hi == MonthIndex(g[Len(g)].Month)
    IN /\ Len(ts) = hi - lo + 1
       /\ \A i \in 1..Len(ts) :
            /\ MonthIndex(ts[i].Month) = lo + i - 1
            /\ ts[i].Month[3] = 1
            /\ \A r \in Range(g) :
                 MonthIndex(r.Month) = lo + i - 1 => ts[i].Amount = r.Amount
            /\ (\A r \in Range(g) : MonthIndex(r.Month) # lo + i - 1)
                 => ts[i].Amount = NumVal(0)

C2_SeriesContiguous ==
    (pc = "build_forecast_returned" /\ err = NoErr) =>
        /\ {e.Category : e \in Range(seen)} = CategoriesOf(monthly)
        /\ \A e \in Range(seen) : C2_SeriesOk(e.Category, e.ts)

\* Rent in Nov 2023 and Apr 2024 only: six entries, four of them filled in.
C2_Witness ==
    /\ pc = "build_forecast_returned"
    /\ err = NoErr
    /\ \E e \in Range(seen) :
         /\ Len(RowsFor(monthly, e.Category)) = 2
         /\ Len(e.ts) = 6
         /\ e.ts[1].Month = <<2023, 11, 1>>
         /\ e.ts[3].Month = <<2024, 1, 1>>
         /\ e.ts[3].Amount = NumVal(0)
         /\ e.ts[6].Month = <<2024, 4, 1>>

\* C3: forecast_series on a series of 1 to 5 values, or on any non-empty
\* series when the engine is unavailable, with periods >= 1, returns exactly
\* periods values, each the last value of the series.
C3_FallbackRepeatsLast ==
    (/\ pc = "forecast_series_returned"
     /\ periods >= 1
     /\ \/ Len(fc.series) \in 1..5
        \/ ~SARIMAX.available /\ Len(fc.series) >= 1) =>
        /\ ~fc.result.raised
        /\ Len(fc.result.value.values) = periods
        /\ \A k \in 1..periods :
             fc.result.value.values[k] = fc.series[Len(fc.series)]

\* A six-month series with no engine, ending on a value other than its
\* first, forecast for more than one period.
C3_Witness ==
    /\ pc = "forecast_series_returned"
    /\ ~SARIMAX.available
    /\ Len(fc.series) = 6
    /\ fc.series[1] # fc.series[6]
    /\ periods > 1
    /\ ~fc.result.raised

\* C4: when build_forecast returns, each category of the actuals has exactly
\* periods forecast rows, in order, for the periods calendar months that
\* follow the category's last actual month; none of them is at or before an
\* actual month of the category, and no row is of another category.
C4_HorizonExact ==
    (pc = "build_forecast_returned" /\ err = NoErr /\ periods >= 1) =>
        /\ \A i \in 1..Len(forecast) :
             forecast[i].Category \in CategoriesOf(monthly)
        /\ \A c \in CategoriesOf(monthly) :
             LET rows == RowsFor(forecast, c)
                 g == RowsFor(monthly, c)
                 last == CHOOSE m \in {MonthIndex(r.Month) : r \in Range(g)} :
                            \A r \in Range(g) : MonthIndex(r.Month) <= m
             IN /\ Len(rows) = periods
                /\ \A k \in 1..Len(rows) :
                     /\ MonthIndex(rows[k].Month) = last + k
                     /\ rows[k].Month[3] = 1
                     /\ \A r \in Range(g) : TsLess(r.Month, rows[k].Month)

\* Two categories with different last months (one of them December), more
\* than one period.
C4_Witness ==
    /\ pc = "build_forecast_returned"
    /\ err = NoErr
    /\ periods > 1
    /\ CategoriesOf(monthly) = Categories
    /\ RowsFor(forecast, "Rent")[1].Month = <<2024, 1, 1>>
    /\ RowsFor(forecast, "Sales")[2].Month = <<2024, 6, 1>>

\* C8: the forecast rows build_forecast returns for a category are the rows
\* it returns for that category's actuals alone, with the same periods,
\* whatever the other categories of the table are and whichever path they
\* take.  (Any two tables that agree on the category's rows then get the
\* same rows for it: both get those of the category alone.)
C8_CategoryIndependent ==
    (pc = "alone_returned" /\ err = NoErr) =>
        /\ ~alone.result.raised
        /\ RowsFor(forecast, alone.Category) = alone.result.value.rows

\* A table where the category falls back and the other one is fitted.
C8_Witness ==
    /\ pc = "alone_returned"
    /\ err = NoErr
    /\ Cardinality(CategoriesOf(monthly)) = 2
    /\ \E e \in Range(seen) :
         e.Category = alone.Category /\ e.path = "fallback"
    /\ \E e \in Range(seen) :
         e.Category # alone.Category /\ e.path = "statistical"

\* C9: forecast_series fits the model exactly when the engine is available
\* and its series has at least 6 entries, and falls back otherwise; the
\* entries are those of the gap-filled monthly series, so a category is
\* fitted exactly when its first and last actual months are at least 5
\* months apart.
C9_FitTaken(r) == IF r.raised THEN r.err = "FitError"
                  ELSE r.value.path = "statistical"

C9_PathRule ==
    /\ pc = "forecast_series_returned" =>
         LET g == RowsFor(monthly, fc.Category)
             span == MonthIndex(g[Len(g)].Month) - MonthIndex(g[1].Month) + 1
         IN /\ C9_FitTaken(fc.result) <=> (SARIMAX.available /\ span >= 6)
            /\ ~C9_FitTaken(fc.result) =>
                 (~fc.result.raised /\ fc.result.value.path = "fallback")
    /\ (pc = "build_forecast_returned" /\ err = NoErr) =>
         \A e \in Range(seen) :
            LET g == RowsFor(monthly, e.Category)
                span == MonthIndex(g[Len(g)].Month) - MonthIndex(g[1].Month) + 1
            IN e.path = (IF SARIMAX.available /\ span >= 6
                         THEN "statistical" ELSE "fallback")

\* Two actuals rows five months apart: six entries, fitted.
C9_Witness ==
    /\ pc = "forecast_series_returned"
    /\ Len(RowsFor(monthly, fc.Category)) = 2
    /\ Len(fc.series) = 6
    /\ ~fc.result.raised
    /\ fc.result.value.path = "statistical"

\* The horizon a command line asks for: 0 when it names none.
HorizonText(a) ==
    IF \E i \in 1..Len(a) - 1 : a[i] = "--periods"
    THEN a[(CHOOSE i \in 1..Len(a) - 1 : a[i] = "--periods") + 1]
    ELSE ""

RequestedHorizon(a) ==
    CASE HorizonText(a) = "3" -> 3
      [] OTHER -> 0

\* C5 as stated: the invocation surface accepts an optional horizon; a run
\* given horizon h produces exactly h forecast rows per category, a run
\* given none produces exactly 6.
C5_HorizonAccepted ==
    /\ (RequestedHorizon(argv) > 0 /\ pc = "raised") => err.at # "parse_args"
    /\ PastBuild =>
         \A c \in CategoriesOf(monthly) :
            Len(RowsFor(forecast, c)) =
               (IF RequestedHorizon(argv) > 0 THEN RequestedHorizon(argv)
                ELSE 6)

\* C5 amended: main's parser knows only --input and --output; a run given a
\* horizon stops in parse_args (SystemExit) before the ledger is read and
\* produces nothing, and every run build_forecast returns in has exactly 6
\* forecast rows per category.
C5_NoHorizonOption ==
    /\ RequestedHorizon(argv) > 0 =>
         /\ pc \in {"parse_args", "raised"}
         /\ pc = "raised" => err = [at |-> "parse_args", exc |-> "SystemExit"]
         /\ df = NoFrame /\ monthly = <<>> /\ forecast = <<>>
         /\ workbook = NoWorkbook /\ stdout = ""
    /\ PastBuild =>
         /\ RequestedHorizon(argv) = 0
         /\ \A c \in CategoriesOf(monthly) : Len(RowsFor(forecast, c)) = 6

\* A finished run with two categories, twelve forecast rows in all.
C5_Witness ==
    /\ pc = "done"
    /\ CategoriesOf(monthly) = Categories
    /\ Len(forecast) = 12
    /\ workbook.Forecast = forecast

\* C6: a stage that raises ends the run there: nothing is printed, and no
\* workbook is written unless the stage was save_to_excel itself; a stage is
\* only ever passed with the value it returned; a category whose fit raises
\* is never given the fallback forecast, the run ends in build_forecast; and
\* the success message is printed only once the workbook is written.
C6_FitFails(c) ==
    LET g == RowsFor(monthly, c)
        s == Values(SeriesOf(g))
    IN /\ SARIMAX.available
       /\ MonthIndex(g[Len(g)].Month) - MonthIndex(g[1].Month) >= 5
       /\ \/ s \in SARIMAX.raisesOn
          \/ \E i \in 1..Len(s) : ~s[i].num

C6_ErrorsPropagate ==
    /\ pc = "raised" =>
         /\ err # NoErr
         /\ stdout = ""
         /\ err.at # "save_to_excel" => workbook = NoWorkbook
         /\ ~ENABLED Next
    /\ pc # "raised" => err = NoErr
    /\ PastLoad =>
         \E e \in {"datetime64", "object"} :
            ~load_ledger(file, e).raised /\ df = load_ledger(file, e).value
    /\ PastAggregate =>
         ~aggregate_by_month(df).raised /\ monthly = aggregate_by_month(df).value
    /\ PastBuild =>
         /\ \A c \in CategoriesOf(monthly) : ~C6_FitFails(c)
         /\ \A e \in Range(seen) :
              (SARIMAX.available /\ Len(e.ts) >= 6) => e.path = "statistical"
    /\ (PastAggregate /\ \E c \in CategoriesOf(monthly) : C6_FitFails(c)) =>
         (pc = "raised" => err.at = "build_forecast")
    /\ stdout # "" =>
         /\ pc = "done"
         /\ workbook = save_to_excel(monthly, forecast)
    /\ workbook.written => PastBuild

\* The fit of a numeric series raised and the run ended in build_forecast.
C6_Witness ==
    /\ pc = "raised"
    /\ err = [at |-> "build_forecast", exc |-> "FitError"]
    /\ Numeric(monthly)
    /\ workbook = NoWorkbook
    /\ stdout = ""

\* C7 as stated: a ledger that lacks a required column, or has a date or an
\* amount that does not parse, fails in ingest: no actuals row and no
\* forecast row is produced from it and nothing of it is written.
C7_Malformed(f) ==
    \/ f.header # RequiredColumns
    \/ \E i \in 1..Len(f.rows) :
         \/ ParseDate(f.rows[i].Date) = NaT
         \/ ~ParseAmount(f.rows[i].Amount).ok

C7_IngestFailFast ==
    C7_Malformed(file) =>
        /\ monthly = <<>>
        /\ forecast = <<>>
        /\ workbook = NoWorkbook
        /\ stdout = ""

\* C10: a run over a ledger with the three columns and no records never
\* reaches save_to_excel, writes no workbook and prints nothing; when
\* aggregate_by_month is reached it returns an empty table without error,
\* and build_forecast then raises (ValueError: nothing to concatenate).
C10_EmptyLedger == file.header = RequiredColumns /\ file.rows = <<>>

====
